---- MODULE Spec2Model ----
(***************************************************************************)
(* Model of the Sonyflake62 identifier generator (src/src/sonyflake62.ts). *)
(*                                                                         *)
(* TLC evaluates 32-bit integers, so the field widths and the epoch are    *)
(* scaled down: the source has SEQUENCE_BITS = 12, MACHINE_ID_BITS = 10,   *)
(* a 41-bit timestamp delta and EPOCH = 1288834974657.  Every derived      *)
(* quantity (MAX_SEQUENCE, MAX_MACHINE_ID, the shifts, the clock window)   *)
(* is computed from the scaled widths exactly as the source computes it.   *)
(*                                                                         *)
(* JavaScript runs nextId to completion on one thread: a call is one step, *)
(* except when it spins in waitNextMillis, where every re-read of the      *)
(* clock is a step and the clock may move between two reads.               *)
(***************************************************************************)
EXTENDS Integers, Sequences, FiniteSets, TLC

\* ------------------------------------------------------------- bounds ----
SEQUENCE_BITS == 2
MACHINE_ID_BITS == 2
TIMESTAMP_BITS == 2
EPOCH == 2

\* ---------------------------------------------------- bit arithmetic ----
RECURSIVE Pow2(_)
Pow2(n) == IF n = 0 THEN 1 ELSE 2 * Pow2(n - 1)

\* x << n on integers of unbounded width
Shl(x, n) == x * Pow2(n)

RECURSIVE BitAnd(_, _)
\* a & b on two's-complement integers of unbounded width
BitAnd(a, b) ==
    IF a = 0 \/ b = 0 THEN 0
    ELSE IF a = -1 THEN b
    ELSE IF b = -1 THEN a
    ELSE 2 * BitAnd(a \div 2, b \div 2)
         + (IF a % 2 = 1 /\ b % 2 = 1 THEN 1 ELSE 0)

RECURSIVE BitOr(_, _)
\* a | b on two's-complement integers of unbounded width
BitOr(a, b) ==
    IF a = 0 THEN b
    ELSE IF b = 0 THEN a
    ELSE IF a = -1 \/ b = -1 THEN -1
    ELSE 2 * BitOr(a \div 2, b \div 2)
         + (IF a % 2 = 1 \/ b % 2 = 1 THEN 1 ELSE 0)

\* ------------------------------------------------- program constants ----
MAX_SEQUENCE == Shl(1, SEQUENCE_BITS) - 1
MAX_MACHINE_ID == Shl(1, MACHINE_ID_BITS) - 1

\* -------------------------------------------------- derived bounds ------
\* number of bits of an identifier whose timestamp delta fits its field
IdBits == TIMESTAMP_BITS + MACHINE_ID_BITS + SEQUENCE_BITS
\* clock readings: the millisecond before the epoch, the epoch and the one
\* after it, the last millisecond whose delta fits TIMESTAMP_BITS and the
\* first one whose delta does not
ClockMin == EPOCH - 1
ClockMax == EPOCH + Pow2(TIMESTAMP_BITS)
Clock == {ClockMin, EPOCH, EPOCH + 1, ClockMax - 1, ClockMax}
\* machine numbers offered to the constructor: the ends of the range and
\* their outer neighbours
MachineIdInputs == {0 - 1, 0, MAX_MACHINE_ID, MAX_MACHINE_ID + 1}
\* identifiers one instance issues in a run: one overflow and two more
MaxIssued == MAX_SEQUENCE + 3
\* generator instances
Gens == {1}

Max(a, b) == IF a >= b THEN a ELSE b

\* ------------------------------------------------------------- state ----
VARIABLES
    now,            \* what Date.now() returns at this moment
    pc,             \* per instance: "none", "invalid", "idle", "wait"
    machineId,      \* this.machineId
    sequence,       \* this.sequence
    lastTimestamp,  \* this.lastTimestamp
    timestamp,      \* local of nextId, live while the call spins
    nextTimestamp,  \* local of waitNextMillis, -1 outside of it
    supplied,       \* the argument the constructor was called with
    prev,           \* kind of the result that preceded the latest call
    result,         \* outcome of the most recent call
    issued,         \* identifiers returned, in order, with their fields
    maxRead,        \* greatest clock reading the instance has observed
    regressed,      \* some reading was below an earlier one
    running,        \* the caller whose call is on the stack, 0 if none
    owner,          \* the caller each returned identifier went to
    num,            \* two arguments handed to toBase62
    str,            \* what toBase62 returned for each
    encoded,        \* which of the two arguments have been encoded
    meta,           \* keys of the KV namespace image_metadata
    blobs,          \* keys of the R2 bucket cdn_images
    up,             \* per upload request: where its handler stands
    get,            \* the GET /:id request: where its handler stands
    del             \* the latest DELETE /:id request and its response

genVars == <<now, pc, machineId, sequence, lastTimestamp, timestamp,
             nextTimestamp, supplied, prev, result, issued, maxRead,
             regressed>>

callerVars == <<running, owner>>

codecVars == <<num, str, encoded>>

appVars == <<meta, blobs, up, get, del>>

vars == <<now, pc, machineId, sequence, lastTimestamp, timestamp,
          nextTimestamp, supplied, prev, result, issued, maxRead,
          regressed, running, owner, num, str, encoded,
          meta, blobs, up, get, del>>

NoResult == [kind |-> "none", id |-> 0]
Pending == [kind |-> "pending", id |-> 0]
ClockRegression == [kind |-> "ClockRegression", id |-> 0]
Returned(i) == [kind |-> "id", id |-> i]

\* the fields as the class initialisers leave them, for the instances G
InitOn(G) ==
    /\ now \in Clock
    /\ pc = [g \in G |-> "none"]
    /\ machineId = [g \in G |-> -1]
    /\ sequence = [g \in G |-> 0]
    /\ lastTimestamp = [g \in G |-> -1]
    /\ timestamp = [g \in G |-> -1]
    /\ nextTimestamp = [g \in G |-> -1]
    /\ supplied = [g \in G |-> -1]
    /\ prev = [g \in G |-> "none"]
    /\ result = [g \in G |-> NoResult]
    /\ issued = [g \in G |-> <<>>]
    /\ maxRead = [g \in G |-> -1]
    /\ regressed = [g \in G |-> FALSE]
    /\ running = [g \in G |-> 0]
    /\ owner = [g \in G |-> <<>>]

\* no call of toBase62 is under observation
CodecIdle ==
    /\ num = <<0, 0>>
    /\ str = << <<>>, <<>> >>
    /\ encoded = {}

\* upload requests in flight at one time
Uploads == {1}

\* a request slot with no request in it; a key is a string, the sequence
\* of its characters
NoRequest == [pc |-> "idle", file |-> "none", id |-> <<>>, status |-> 0]

\* both stores empty, no request received
AppIdle ==
    /\ meta = {}
    /\ blobs = {}
    /\ up = [r \in Uploads |-> NoRequest]
    /\ get = NoRequest
    /\ del = NoRequest

Init == InitOn(Gens) /\ CodecIdle /\ AppIdle

\* ------------------------------------------------------- constructor ----
\* off by one: the largest machine number is rejected
InvalidMachineId_OffByOne(m) == m < 0 \/ m >= MAX_MACHINE_ID

InvalidMachineId(m) == m < 0 \/ m > MAX_MACHINE_ID

Construct(g, m) ==
    /\ pc[g] = "none"
    /\ supplied' = [supplied EXCEPT ![g] = m]
    /\ IF InvalidMachineId(m)
       THEN /\ pc' = [pc EXCEPT ![g] = "invalid"]
            /\ UNCHANGED machineId
       ELSE /\ pc' = [pc EXCEPT ![g] = "idle"]
            /\ machineId' = [machineId EXCEPT ![g] = m]
    /\ UNCHANGED <<now, sequence, lastTimestamp, timestamp, nextTimestamp,
                   prev, result, issued, maxRead, regressed>>

\* ------------------------------------------------------------ nextId ----
\* off by one: a clock one millisecond behind is let through
IsRegression_Lenient(ts, last) == ts < last - 1

\* a reading equal to the last timestamp is rejected too
IsRegression_Le(ts, last) == ts <= last

IsRegression(ts, last) == ts < last

\* branches swapped: the counter restarts while the millisecond lasts
SameMillis_Gt(ts, last) == ts > last

SameMillis(ts, last) == ts = last

\* mask forgotten: the counter never wraps
NextSequence_NoMask(seq) == seq + 1

NextSequence(seq) == BitAnd(seq + 1, MAX_SEQUENCE)

\* sequence packed above the timestamp
ComposeId_SeqHigh(ts, m, seq) ==
    BitOr(BitOr(Shl(seq, TIMESTAMP_BITS + 1 + MACHINE_ID_BITS),
                Shl(m, SEQUENCE_BITS)),
          ts - EPOCH)

\* sequence left out of the identifier
ComposeId_NoSeq(ts, m, seq) ==
    BitOr(Shl(ts - EPOCH, SEQUENCE_BITS + MACHINE_ID_BITS),
          Shl(m, SEQUENCE_BITS))

\* machine number left out of the identifier
ComposeId_NoMachine(ts, m, seq) ==
    BitOr(Shl(ts - EPOCH, SEQUENCE_BITS + MACHINE_ID_BITS), seq)

\* machine number not shifted above the sequence
ComposeId_NoMachineShift(ts, m, seq) ==
    BitOr(BitOr(Shl(ts - EPOCH, SEQUENCE_BITS + MACHINE_ID_BITS), m), seq)

ComposeId(ts, m, seq) ==
    BitOr(BitOr(Shl(ts - EPOCH, SEQUENCE_BITS + MACHINE_ID_BITS),
                Shl(m, SEQUENCE_BITS)),
          seq)

\* the bookkeeping of one clock reading
Observe(g, t) ==
    /\ maxRead' = [maxRead EXCEPT ![g] = Max(@, t)]
    /\ regressed' = [regressed EXCEPT ![g] = @ \/ t < maxRead[g]]

\* lines 39-45: store the timestamp, pack and return the identifier
Issue(g, ts, seq, inc) ==
    LET id == ComposeId(ts, machineId[g], seq) IN
    /\ lastTimestamp' = [lastTimestamp EXCEPT ![g] = ts]
    /\ result' = [result EXCEPT ![g] = Returned(id)]
    /\ issued' = [issued EXCEPT ![g] =
                    Append(@, [id |-> id, ts |-> ts, seq |-> seq,
                               inc |-> inc])]

\* the throw comes after the sequence was reset
Throw_Dirty(g) ==
    /\ result' = [result EXCEPT ![g] = ClockRegression]
    /\ sequence' = [sequence EXCEPT ![g] = 0]
    /\ UNCHANGED <<pc, lastTimestamp, timestamp, nextTimestamp, issued>>

\* lines 26-28: the throw leaves every field of the generator alone
Throw(g) ==
    /\ result' = [result EXCEPT ![g] = ClockRegression]
    /\ UNCHANGED <<pc, sequence, lastTimestamp, timestamp, nextTimestamp,
                   issued>>

NextId(g) ==
    /\ pc[g] = "idle"
    /\ Len(issued[g]) < MaxIssued
    /\ Observe(g, now)
    /\ prev' = [prev EXCEPT ![g] = result[g].kind]
    /\ IF IsRegression(now, lastTimestamp[g])
       THEN Throw(g)
       ELSE IF SameMillis(now, lastTimestamp[g])
       THEN LET seq == NextSequence(sequence[g]) IN
            /\ sequence' = [sequence EXCEPT ![g] = seq]
            /\ IF seq = 0
               THEN /\ pc' = [pc EXCEPT ![g] = "wait"]
                    /\ timestamp' = [timestamp EXCEPT ![g] = now]
                    /\ result' = [result EXCEPT ![g] = Pending]
                    /\ UNCHANGED <<lastTimestamp, nextTimestamp, issued>>
               ELSE /\ Issue(g, now, seq, TRUE)
                    /\ UNCHANGED <<pc, timestamp, nextTimestamp>>
       ELSE /\ sequence' = [sequence EXCEPT ![g] = 0]
            /\ Issue(g, now, 0, FALSE)
            /\ UNCHANGED <<pc, timestamp, nextTimestamp>>
    /\ UNCHANGED <<now, machineId, supplied>>

\* ---------------------------------------------------- waitNextMillis ----
\* the wait ends as soon as the clock is not behind
KeepWaiting_Lt(next, ts) == next < ts

\* off by one: the millisecond after the full one is waited out too
KeepWaiting_Le1(next, ts) == next <= ts + 1

KeepWaiting(next, ts) == next <= ts

\* one reading of the clock inside waitNextMillis (line 60 or line 62) and
\* the loop test that follows it; on exit nextId resumes at line 39
WaitNextMillis(g) ==
    /\ pc[g] = "wait"
    /\ Observe(g, now)
    /\ IF KeepWaiting(now, timestamp[g])
       THEN /\ nextTimestamp' = [nextTimestamp EXCEPT ![g] = now]
            /\ UNCHANGED <<pc, lastTimestamp, timestamp, result, issued>>
       ELSE /\ pc' = [pc EXCEPT ![g] = "idle"]
            /\ nextTimestamp' = [nextTimestamp EXCEPT ![g] = -1]
            /\ timestamp' = [timestamp EXCEPT ![g] = -1]
            /\ Issue(g, now, sequence[g], TRUE)
    /\ UNCHANGED <<now, machineId, sequence, supplied, prev>>

\* ------------------------------------------------------------- clock ----
\* the wall clock is outside the program: it may stall, jump or regress
ClockSet(t) ==
    /\ t # now
    /\ now' = t
    /\ UNCHANGED <<pc, machineId, sequence, lastTimestamp, timestamp,
                   nextTimestamp, supplied, prev, result, issued,
                   maxRead, regressed>>

\* the runs of one instance, whoever calls it
Next ==
    \/ \E g \in Gens, m \in MachineIdInputs :
          Construct(g, m) /\ UNCHANGED <<callerVars, codecVars, appVars>>
    \/ \E g \in Gens : NextId(g) /\ UNCHANGED <<callerVars, codecVars, appVars>>
    \/ \E g \in Gens : WaitNextMillis(g) /\ UNCHANGED <<callerVars, codecVars, appVars>>
    \/ \E t \in Clock : ClockSet(t) /\ UNCHANGED <<callerVars, codecVars, appVars>>

Spec == Init /\ [][Next]_vars

\* the loop of waitNextMillis is the only code on the thread while it
\* spins, so it goes on reading the clock
Spinning == \E g \in Gens :
    WaitNextMillis(g) /\ UNCHANGED <<callerVars, codecVars, appVars>>

SpecLive == Spec /\ WF_vars(Spinning)

\* ------------------------------------------------- two instances ------
\* two generators, as two processes would hold them; their calls
\* interleave freely and each reads the clock as it finds it
Both == {1, 2}

IssuedByBoth == Len(issued[1]) + Len(issued[2])
\* identifiers the two issue together: one full millisecond and the
\* identifier after the overflow wait
MaxIssuedTwo == MAX_SEQUENCE + 2
\* clock readings of the two-instance runs
ClockTwo == {EPOCH, EPOCH + 1, ClockMax}

InitTwo == InitOn(Both) /\ now \in ClockTwo /\ CodecIdle /\ AppIdle

NextTwo ==
    \/ \E g \in Both, m \in MachineIdInputs :
          Construct(g, m) /\ UNCHANGED <<callerVars, codecVars, appVars>>
    \/ \E g \in Both :
          NextId(g) /\ IssuedByBoth < MaxIssuedTwo
                    /\ UNCHANGED <<callerVars, codecVars, appVars>>
    \/ \E g \in Both : WaitNextMillis(g) /\ UNCHANGED <<callerVars, codecVars, appVars>>
    \/ \E t \in ClockTwo : ClockSet(t) /\ UNCHANGED <<callerVars, codecVars, appVars>>

SpecTwo == InitTwo /\ [][NextTwo]_vars

\* ------------------------------------------------ several callers -----
\* request handlers sharing the exported instance (line 69).  nextId is a
\* synchronous function: a handler that calls it keeps the thread until
\* the call returns or throws, so a caller enters only when no call is on
\* the stack, and the spin of waitNextMillis belongs to the caller that
\* entered.
Callers == {1, 2}
\* clock readings of the runs with several callers
ClockCallers == {EPOCH, EPOCH + 1}
\* identifiers issued in such a run: one full millisecond and the
\* identifier after the overflow wait
MaxIssuedCallers == MAX_SEQUENCE + 2

\* the caller a newly returned identifier goes to
Deliver(g, c) ==
    owner' = [owner EXCEPT ![g] =
                IF Len(issued'[g]) > Len(issued[g]) THEN Append(@, c) ELSE @]

CallNextId(c, g) ==
    /\ running[g] = 0
    /\ Len(issued[g]) < MaxIssuedCallers
    /\ NextId(g)
    /\ running' = [running EXCEPT ![g] = IF pc'[g] = "wait" THEN c ELSE 0]
    /\ Deliver(g, c)
    /\ UNCHANGED <<codecVars, appVars>>

SpinNextId(g) ==
    /\ running[g] # 0
    /\ WaitNextMillis(g)
    /\ running' = [running EXCEPT ![g] = IF pc'[g] = "wait" THEN @ ELSE 0]
    /\ Deliver(g, running[g])
    /\ UNCHANGED <<codecVars, appVars>>

NextCallers ==
    \/ \E g \in Gens, m \in MachineIdInputs :
          Construct(g, m) /\ UNCHANGED <<callerVars, codecVars, appVars>>
    \/ \E g \in Gens, c \in Callers : CallNextId(c, g)
    \/ \E g \in Gens : SpinNextId(g)
    \/ \E t \in ClockCallers : ClockSet(t) /\ UNCHANGED <<callerVars, codecVars, appVars>>

InitCallers == Init /\ now \in ClockCallers

SpecCallers == InitCallers /\ [][NextCallers]_vars

\* ---------------------------------------------------------- toBase62 ----
\* a string is the sequence of its characters

\* lower case before upper case
BASE62_LowerFirst == <<
    "0", "1", "2", "3", "4", "5", "6", "7", "8", "9", "a", "b", "c",
    "d", "e", "f", "g", "h", "i", "j", "k", "l", "m", "n", "o", "p",
    "q", "r", "s", "t", "u", "v", "w", "x", "y", "z", "A", "B", "C",
    "D", "E", "F", "G", "H", "I", "J", "K", "L", "M", "N", "O", "P",
    "Q", "R", "S", "T", "U", "V", "W", "X", "Y", "Z" >>

\* a digit zero typed for the letter O
BASE62_ZeroForO == <<
    "0", "1", "2", "3", "4", "5", "6", "7", "8", "9", "A", "B", "C",
    "D", "E", "F", "G", "H", "I", "J", "K", "L", "M", "N", "0", "P",
    "Q", "R", "S", "T", "U", "V", "W", "X", "Y", "Z", "a", "b", "c",
    "d", "e", "f", "g", "h", "i", "j", "k", "l", "m", "n", "o", "p",
    "q", "r", "s", "t", "u", "v", "w", "x", "y", "z" >>

BASE62 == <<
    "0", "1", "2", "3", "4", "5", "6", "7", "8", "9", "A", "B", "C",
    "D", "E", "F", "G", "H", "I", "J", "K", "L", "M", "N", "O", "P",
    "Q", "R", "S", "T", "U", "V", "W", "X", "Y", "Z", "a", "b", "c",
    "d", "e", "f", "g", "h", "i", "j", "k", "l", "m", "n", "o", "p",
    "q", "r", "s", "t", "u", "v", "w", "x", "y", "z" >>

Radix == 62

RECURSIVE ToBase62Loop(_, _)
\* lines 52-55: prepend the digit of n modulo 62, go on with n / 62
ToBase62Loop(n, res) ==
    IF n > 0
    THEN ToBase62Loop(n \div Radix, <<BASE62[(n % Radix) + 1]>> \o res)
    ELSE res

\* a zero put in front of the digits
ToBase62_Padded(n) ==
    IF n = 0 THEN <<"0">> ELSE <<"0">> \o ToBase62Loop(n, <<>>)

\* the case of zero forgotten
ToBase62_NoZero(n) == ToBase62Loop(n, <<>>)

ToBase62(n) == IF n = 0 THEN <<"0">> ELSE ToBase62Loop(n, <<>>)

\* arguments of toBase62: every one-digit value, two-digit values through
\* every second digit, the first digits around the change of letter case,
\* and the first three-digit values
MaxNum == 130
EncodeInputs ==
    (0..MaxNum) \cup
    { 9 * Radix + 61, 10 * Radix, 35 * Radix + 61, 36 * Radix,
      61 * Radix + 61, Radix * Radix, Radix * Radix + 1 }

InitEncode ==
    /\ InitOn(Gens)
    /\ now = EPOCH
    /\ num \in EncodeInputs \X EncodeInputs
    /\ str = << <<>>, <<>> >>
    /\ encoded = {}
    /\ AppIdle

\* one call of toBase62
Encode(k) ==
    /\ k \notin encoded
    /\ str' = [str EXCEPT ![k] = ToBase62(num[k])]
    /\ encoded' = encoded \cup {k}
    /\ UNCHANGED <<now, pc, machineId, sequence, lastTimestamp, timestamp,
                   nextTimestamp, supplied, prev, result, issued, maxRead,
                   regressed, running, owner, num, appVars>>

NextEncode == \E k \in {1, 2} : Encode(k)

SpecEncode == InitEncode /\ [][NextEncode]_vars

\* ------------------------------------- toBase62 between nextId calls ---
\* toBase62 is a method of the instance (line 48); its body names no field
\* of `this`

\* the sequence counter used as the loop's scratch variable
EncodeIssued_Dirty(g, i, k) ==
    /\ pc[g] = "idle"
    /\ i \in 1..Len(issued[g])
    /\ num' = [num EXCEPT ![k] = issued[g][i].id]
    /\ str' = [str EXCEPT ![k] = ToBase62(issued[g][i].id)]
    /\ encoded' = encoded \cup {k}
    /\ sequence' = [sequence EXCEPT ![g] = 0]
    /\ UNCHANGED <<now, pc, machineId, lastTimestamp, timestamp,
                   nextTimestamp, supplied, prev, result, issued, maxRead,
                   regressed, callerVars, appVars>>

\* the instance encodes the i-th identifier it returned
EncodeIssued(g, i, k) ==
    /\ pc[g] = "idle"
    /\ i \in 1..Len(issued[g])
    /\ num' = [num EXCEPT ![k] = issued[g][i].id]
    /\ str' = [str EXCEPT ![k] = ToBase62(issued[g][i].id)]
    /\ encoded' = encoded \cup {k}
    /\ UNCHANGED <<now, pc, machineId, sequence, lastTimestamp, timestamp,
                   nextTimestamp, supplied, prev, result, issued, maxRead,
                   regressed, callerVars, appVars>>

\* identifiers issued in a run that also encodes them
MaxIssuedMixed == MAX_SEQUENCE + 2

NextMixed ==
    \/ \E g \in Gens, m \in MachineIdInputs :
          Construct(g, m) /\ UNCHANGED <<callerVars, codecVars, appVars>>
    \/ \E g \in Gens :
          NextId(g) /\ Len(issued[g]) < MaxIssuedMixed
                    /\ UNCHANGED <<callerVars, codecVars, appVars>>
    \/ \E g \in Gens :
          WaitNextMillis(g) /\ UNCHANGED <<callerVars, codecVars, appVars>>
    \/ \E t \in ClockCallers :
          ClockSet(t) /\ UNCHANGED <<callerVars, codecVars, appVars>>
    \/ \E g \in Gens, k \in {1, 2} :
          \E i \in 1..Len(issued[g]) : EncodeIssued(g, i, k)

SpecMixed == InitCallers /\ [][NextMixed]_vars

\* ------------------------------------------------- request handlers ----
\* The worker runs one thread: a handler keeps it from one await to the
\* next, and handlers of different requests interleave at their awaits.
\* The stores are sets of keys; a key is the string of an identifier.

ALLOW_DELETES_On == TRUE

ALLOW_DELETES == FALSE

\* what a request's form holds under "image": nothing, or a file, given
\* by its type up to the first slash
Files == {"none", "image/", "video/", "text/"}

\* negation lost on the second test
InvalidFileType_NoNot(f) == ~(f = "image/") /\ f = "video/"

\* line 87
InvalidFileType(f) == ~(f = "image/") /\ ~(f = "video/")

\* clock readings of the runs of the handlers
ClockApp == {EPOCH, EPOCH + 1}
\* identifiers the uploads of a run consume
MaxUploadIds == 3
\* keys the metadata store takes; beyond that its put only fails
MaxStored == 2
\* a key no identifier encodes to
NoKey == <<"0", "0">>

\* no call of nextId is spinning: the thread is free for a handler
Free == \A g \in Gens : pc[g] = "idle"

\* the response of a handler: its status; the key asked for stays on
\* record with it
Respond(req, code) ==
    [pc |-> "done", file |-> "none", id |-> req.id, status |-> code]

\* line 91 once nextId has returned or thrown, then the await of line 92
Allocated(r, f) ==
    IF result'[1] = ClockRegression
    THEN up' = [up EXCEPT ![r] = Respond(NoRequest, 400)]
    ELSE IF result'[1].kind = "id"
    THEN up' = [up EXCEPT ![r] = [pc |-> "buffer", file |-> f,
                                  id |-> ToBase62(result'[1].id),
                                  status |-> 0]]
    ELSE up' = [up EXCEPT ![r] = [pc |-> "spin", file |-> f, id |-> <<>>,
                                  status |-> 0]]

\* POST /upload, lines 82-92: the form, the two checks, the identifier
Upload(r, f) ==
    /\ Free
    /\ up[r].pc \in {"idle", "done"}
    /\ IF f = "none" \/ InvalidFileType(f)
       THEN /\ up' = [up EXCEPT ![r] = Respond(NoRequest, 400)]
            /\ UNCHANGED <<genVars, owner>>
       ELSE /\ Len(owner[1]) < MaxUploadIds
            /\ NextId(1)
            /\ Allocated(r, f)
            /\ Deliver(1, r)
    /\ UNCHANGED <<meta, blobs, get, del, running, codecVars>>

\* the call of nextId made at line 91 spins in waitNextMillis
UploadSpin(r) ==
    /\ up[r].pc = "spin"
    /\ WaitNextMillis(1)
    /\ IF pc'[1] = "wait" THEN UNCHANGED up ELSE Allocated(r, up[r].file)
    /\ Deliver(1, r)
    /\ UNCHANGED <<meta, blobs, get, del, running, codecVars>>

\* a failed put goes unnoticed: the handler goes on to the blob
PutMetadata_NotAwaited(r, ok) ==
    /\ Free
    /\ up[r].pc = "buffer"
    /\ ok => Cardinality(meta \cup {up[r].id}) <= MaxStored
    /\ meta' = IF ok THEN meta \cup {up[r].id} ELSE meta
    /\ up' = [up EXCEPT ![r].pc = "blob"]
    /\ UNCHANGED <<blobs, get, del, genVars, callerVars, codecVars>>

\* lines 92-101: the buffer is there, the metadata goes to the KV store;
\* a put that fails throws and line 116 answers
PutMetadata(r, ok) ==
    /\ Free
    /\ up[r].pc = "buffer"
    /\ ok => Cardinality(meta \cup {up[r].id}) <= MaxStored
    /\ IF ok
       THEN /\ meta' = meta \cup {up[r].id}
            /\ up' = [up EXCEPT ![r].pc = "blob"]
       ELSE /\ meta' = meta
            /\ up' = [up EXCEPT ![r] = Respond(NoRequest, 400)]
    /\ UNCHANGED <<blobs, get, del, genVars, callerVars, codecVars>>

\* lines 104-114: the blob goes to the bucket and the handler answers
PutBlob(r, ok) ==
    /\ Free
    /\ up[r].pc = "blob"
    /\ IF ok
       THEN /\ blobs' = blobs \cup {up[r].id}
            /\ up' = [up EXCEPT ![r] = Respond(NoRequest, 200)]
       ELSE /\ blobs' = blobs
            /\ up' = [up EXCEPT ![r] = Respond(NoRequest, 400)]
    /\ UNCHANGED <<meta, get, del, genVars, callerVars, codecVars>>

\* keys a client asks for: the stored ones and one that is not
Asked == meta \cup blobs \cup {NoKey}

\* GET /:id, lines 62-63: the bucket is asked for the object
Get(id) ==
    /\ Free
    /\ get.pc \in {"idle", "done"}
    /\ get' = [pc |-> "object", file |-> "none", id |-> id, status |-> 0]
    /\ UNCHANGED <<meta, blobs, up, del, genVars, callerVars, codecVars>>

\* lines 63-66: no object, no answer; else the KV store is asked
GetObject ==
    /\ Free
    /\ get.pc = "object"
    /\ get' = IF get.id \in blobs
              THEN [get EXCEPT !.pc = "metadata"]
              ELSE Respond(get, 404)
    /\ UNCHANGED <<meta, blobs, up, del, genVars, callerVars, codecVars>>

\* lines 66-78: no metadata, no answer; else the body is sent
GetMetadata ==
    /\ Free
    /\ get.pc = "metadata"
    /\ get' = Respond(get, IF get.id \in meta THEN 200 ELSE 404)
    /\ UNCHANGED <<meta, blobs, up, del, genVars, callerVars, codecVars>>

\* DELETE /:id, lines 122-130
Delete(id) ==
    /\ Free
    /\ IF ALLOW_DELETES
       THEN /\ blobs' = blobs \ {id}
            /\ meta' = meta \ {id}
            /\ del' = Respond([NoRequest EXCEPT !.id = id], 200)
       ELSE /\ UNCHANGED <<meta, blobs>>
            /\ del' = Respond([NoRequest EXCEPT !.id = id], 403)
    /\ UNCHANGED <<up, get, genVars, callerVars, codecVars>>

\* the identifiers of one full millisecond ts, as machine m issues them
FullMillisecond(ts, m) ==
    [i \in 1..(MAX_SEQUENCE + 1) |->
        [id |-> ComposeId(ts, m, i - 1), ts |-> ts, seq |-> i - 1,
         inc |-> i > 1]]

\* the exported instance of line 69, made when the module is loaded, with
\* both stores empty: either no upload has come in yet, or the uploads so
\* far filled the millisecond EPOCH and each failed at its first write
InitApp ==
    /\ now \in ClockApp
    /\ \E m \in {0, MAX_MACHINE_ID}, full \in BOOLEAN :
          /\ ~InvalidMachineId(m)
          /\ machineId = [g \in Gens |-> m]
          /\ supplied = [g \in Gens |-> m]
          /\ sequence = [g \in Gens |-> IF full THEN MAX_SEQUENCE ELSE 0]
          /\ lastTimestamp = [g \in Gens |-> IF full THEN EPOCH ELSE -1]
          /\ maxRead = [g \in Gens |-> IF full THEN EPOCH ELSE -1]
          /\ prev = [g \in Gens |-> IF full THEN "id" ELSE "none"]
          /\ issued = [g \in Gens |->
                         IF full THEN FullMillisecond(EPOCH, m) ELSE <<>>]
          /\ result = [g \in Gens |->
                         IF full
                         THEN Returned(ComposeId(EPOCH, m, MAX_SEQUENCE))
                         ELSE NoResult]
    /\ pc = [g \in Gens |-> "idle"]
    /\ timestamp = [g \in Gens |-> -1]
    /\ nextTimestamp = [g \in Gens |-> -1]
    /\ regressed = [g \in Gens |-> FALSE]
    /\ running = [g \in Gens |-> 0]
    /\ owner = [g \in Gens |-> <<>>]
    /\ CodecIdle
    /\ AppIdle

NextApp ==
    \/ \E r \in Uploads, f \in Files : Upload(r, f)
    \/ \E r \in Uploads : UploadSpin(r)
    \/ \E r \in Uploads, ok \in BOOLEAN : PutMetadata(r, ok)
    \/ \E r \in Uploads, ok \in BOOLEAN : PutBlob(r, ok)
    \/ \E id \in Asked : Get(id)
    \/ GetObject
    \/ GetMetadata
    \/ \E id \in Asked : Delete(id)
    \/ \E t \in ClockApp :
          ClockSet(t) /\ UNCHANGED <<callerVars, codecVars, appVars>>

SpecApp == InitApp /\ [][NextApp]_vars

\* ------------------------------------------------------------ claims ----
Ids(g) == issued[g]
Idx(g) == 1..Len(issued[g])
Constructed(g) == pc[g] \in {"idle", "wait"}

\* C1: while the clock has never been read below an earlier reading, no two
\* identifiers returned by one instance are the same integer.
C1_Unique ==
    \A g \in Gens :
        ~regressed[g] =>
            \A i, j \in Idx(g) : i # j => Ids(g)[i].id # Ids(g)[j].id

\* a run with a non-regressing clock that filled a millisecond, went
\* through the overflow wait and returned afterwards
C1_Witness ==
    \E g \in Gens :
        /\ ~regressed[g]
        /\ Len(Ids(g)) >= MAX_SEQUENCE + 2
        /\ \E i \in Idx(g) : Ids(g)[i].inc /\ Ids(g)[i].seq = 0

\* C2: with a non-regressing clock the identifiers are non-decreasing in
\* the order they were returned.
C2_NonDecreasing ==
    \A g \in Gens :
        ~regressed[g] =>
            \A i \in Idx(g) :
                i > 1 => Ids(g)[i].id >= Ids(g)[i - 1].id

\* a non-regressing run whose identifiers span two milliseconds and two
\* sequence values
C2_Witness ==
    \E g \in Gens :
        /\ ~regressed[g]
        /\ \E i, j \in Idx(g) :
            /\ i > 1 /\ Ids(g)[i].ts > Ids(g)[i - 1].ts
            /\ j > 1 /\ Ids(g)[j].ts = Ids(g)[j - 1].ts

\* C3: of two identifiers returned one after the other, the second is
\* strictly greater whenever its clock reading is later than the first's
\* or the call took the branch that increments the sequence counter.
C3_Strict ==
    \A g \in Gens :
        \A i \in Idx(g) :
            (i > 1 /\ (Ids(g)[i].ts > Ids(g)[i - 1].ts \/ Ids(g)[i].inc))
                => Ids(g)[i].id > Ids(g)[i - 1].id

\* both cases in one run: an increment within the millisecond, then an
\* identifier of a later millisecond, on a clock that also regressed
C3_Witness ==
    \E g \in Gens :
        /\ regressed[g]
        /\ \E i, j \in Idx(g) :
            /\ i > 1 /\ Ids(g)[i].inc /\ Ids(g)[i].ts = Ids(g)[i - 1].ts
            /\ j > 1 /\ ~Ids(g)[j].inc /\ Ids(g)[j].ts > Ids(g)[j - 1].ts

C5_Frame ==
    [][\A g \in Gens :
        (NextId(g) /\ result'[g] = ClockRegression)
            => /\ lastTimestamp'[g] = lastTimestamp[g]
               /\ sequence'[g] = sequence[g]
               /\ machineId'[g] = machineId[g]]_vars

\* a failed call in the middle of a millisecond: the counter it found is
\* still there
C5_Witness ==
    \E g \in Gens :
        /\ result[g] = ClockRegression
        /\ sequence[g] > 0
        /\ Len(Ids(g)) >= 1
        /\ Ids(g)[Len(Ids(g))].seq = sequence[g]
        /\ Ids(g)[Len(Ids(g))].ts = lastTimestamp[g]

\* C6: after a call failed with ClockRegression, the next call whose
\* reading is at or after lastTimestamp does not fail, and the identifier
\* it returns (at once or after the overflow wait) is greater than every
\* identifier issued before the failure.
C6_Recovery ==
    [][\A g \in Gens :
        /\ (NextId(g) /\ result[g] = ClockRegression
                      /\ now >= lastTimestamp[g])
              => result'[g].kind \in {"id", "pending"}
        /\ ((NextId(g) \/ WaitNextMillis(g))
                /\ prev'[g] = "ClockRegression"
                /\ Len(issued'[g]) > Len(issued[g]))
              => /\ result'[g].kind = "id"
                 /\ \A i \in Idx(g) : result'[g].id > Ids(g)[i].id]_vars

\* the call that followed a failure has returned an identifier, and
\* identifiers had been issued before the failure
C6_Witness ==
    \E g \in Gens :
        /\ prev[g] = "ClockRegression"
        /\ result[g].kind = "id"
        /\ Len(Ids(g)) >= 2

\* C7: construction succeeds exactly when the machine number is in
\* 0..MAX_MACHINE_ID; any other number fails and yields no generator.
C7_Construct ==
    \A g \in Gens :
        pc[g] # "none" =>
            /\ Constructed(g) <=> supplied[g] \in 0..MAX_MACHINE_ID
            /\ pc[g] = "invalid" <=> supplied[g] \notin 0..MAX_MACHINE_ID
            /\ Constructed(g) => machineId[g] = supplied[g]
            /\ pc[g] = "invalid" => (machineId[g] = -1 /\ Ids(g) = <<>>)
            /\ supplied[g] \in {0, MAX_MACHINE_ID} => Constructed(g)
            /\ supplied[g] \in {0 - 1, MAX_MACHINE_ID + 1}
                  => pc[g] = "invalid"

\* the largest machine number was accepted
C7_Witness ==
    \E g \in Gens :
        /\ Constructed(g)
        /\ supplied[g] = MAX_MACHINE_ID
        /\ machineId[g] = MAX_MACHINE_ID

\* C8: every identifier is (timestamp - EPOCH) * 2^(SEQUENCE_BITS +
\* MACHINE_ID_BITS) + machineId * 2^SEQUENCE_BITS + sequence, with the
\* machine number given at construction and sequence in 0..MAX_SEQUENCE,
\* so each field is recovered from the identifier by division.
C8_Layout ==
    \A g \in Gens :
        \A i \in Idx(g) :
            LET r == Ids(g)[i]
                lo == Pow2(SEQUENCE_BITS)
                mid == Pow2(MACHINE_ID_BITS)
            IN  /\ machineId[g] = supplied[g]
                /\ r.seq \in 0..(lo - 1)
                /\ r.id = (r.ts - EPOCH) * (lo * mid) + supplied[g] * lo
                             + r.seq
                /\ r.id % lo = r.seq
                /\ (r.id \div lo) % mid = supplied[g]
                /\ r.id \div (lo * mid) = r.ts - EPOCH

\* an identifier with every bit of the machine and sequence fields set
C8_Witness ==
    \E g \in Gens :
        \E i \in Idx(g) :
            /\ Ids(g)[i].ts > EPOCH
            /\ Ids(g)[i].seq = MAX_SEQUENCE
            /\ supplied[g] = MAX_MACHINE_ID

\* C9: every identifier is a non-negative integer below 2^IdBits, for
\* every clock reading the generator accepts.
C9_Range ==
    \A g \in Gens :
        \A i \in Idx(g) :
            Ids(g)[i].id \in 0..(Pow2(IdBits) - 1)

\* C10: at most MAX_SEQUENCE + 1 identifiers carry one timestamp; once
\* that many were issued for the current millisecond the next call waits,
\* returning nothing, and the identifier it returns was taken from a
\* strictly later reading and has sequence 0.
SameMs(g, i) == {j \in 1..i : Ids(g)[j].ts = Ids(g)[i].ts}

C10_Capacity ==
    \A g \in Gens :
        /\ \A i \in Idx(g) : Cardinality(SameMs(g, i)) <= MAX_SEQUENCE + 1
        /\ \A i \in Idx(g) :
              (i > 1 /\ Cardinality(SameMs(g, i - 1)) = MAX_SEQUENCE + 1)
                  => /\ Ids(g)[i].ts > Ids(g)[i - 1].ts
                     /\ Ids(g)[i].seq = 0
        /\ pc[g] = "wait" =>
              /\ result[g] = Pending
              /\ sequence[g] = 0
              /\ timestamp[g] = lastTimestamp[g]
              /\ Len(Ids(g)) >= 1
              /\ Cardinality(SameMs(g, Len(Ids(g)))) = MAX_SEQUENCE + 1

\* the call that found the millisecond full has waited and returned
C10_Witness ==
    \E g \in Gens :
        \E i \in Idx(g) :
            /\ i > 1
            /\ Cardinality(SameMs(g, i - 1)) = MAX_SEQUENCE + 1
            /\ Ids(g)[i].inc
            /\ Ids(g)[i].seq = 0

\* the three fields of an identifier, read back by division
SeqField(id) == id % Pow2(SEQUENCE_BITS)
MachineField(id) == (id \div Pow2(SEQUENCE_BITS)) % Pow2(MACHINE_ID_BITS)
TsField(id) == id \div Pow2(SEQUENCE_BITS + MACHINE_ID_BITS)

\* C11: two identifiers of one instance with the same timestamp field have
\* the same machine-number field and different sequence fields, and are
\* different integers.
C11_SameMillis ==
    \A g \in Gens :
        \A i, j \in Idx(g) :
            (i # j /\ TsField(Ids(g)[i].id) = TsField(Ids(g)[j].id))
                => /\ MachineField(Ids(g)[i].id) = MachineField(Ids(g)[j].id)
                   /\ SeqField(Ids(g)[i].id) # SeqField(Ids(g)[j].id)
                   /\ Ids(g)[i].id # Ids(g)[j].id

\* a millisecond filled to the last sequence value by an instance whose
\* machine number is not zero
C11_Witness ==
    \E g \in Gens :
        \E i, j \in Idx(g) :
            /\ i < j
            /\ TsField(Ids(g)[i].id) = TsField(Ids(g)[j].id)
            /\ SeqField(Ids(g)[i].id) = 0
            /\ SeqField(Ids(g)[j].id) = MAX_SEQUENCE
            /\ MachineField(Ids(g)[j].id) = MAX_MACHINE_ID

\* C12: two instances constructed with different machine numbers never
\* return the same identifier, whatever the clock reads and however their
\* calls interleave.
C12_TwoInstances ==
    (Constructed(1) /\ Constructed(2) /\ machineId[1] # machineId[2])
        => \A i \in 1..Len(issued[1]), j \in 1..Len(issued[2]) :
               issued[1][i].id # issued[2][j].id

\* both instances issued an identifier for the same millisecond with the
\* same sequence value
C12_Witness ==
    /\ Constructed(1) /\ Constructed(2)
    /\ machineId[1] # machineId[2]
    /\ \E i \in 1..Len(issued[1]), j \in 1..Len(issued[2]) :
          /\ issued[1][i].ts = issued[2][j].ts
          /\ issued[1][i].seq = issued[2][j].seq
          /\ issued[1][i].seq > 0

\* the (timestamp, sequence) pair of the i-th identifier
Pair(g, i) == <<Ids(g)[i].ts, Ids(g)[i].seq>>

\* C13: with several callers on one shared instance each call takes effect
\* as a whole: every returned identifier went to exactly one caller, the
\* instance is left in the state of the identifier returned last, and no
\* two calls, of the same or of different callers, produced the same
\* (timestamp, sequence) pair.
C13_Linearizable ==
    \A g \in Gens :
        /\ Len(owner[g]) = Len(Ids(g))
        /\ \A i, j \in Idx(g) : i # j => Pair(g, i) # Pair(g, j)
        /\ (pc[g] = "idle" /\ Len(Ids(g)) >= 1)
              => Pair(g, Len(Ids(g))) = <<lastTimestamp[g], sequence[g]>>
        /\ running[g] # 0 <=> pc[g] = "wait"

\* two different callers were served within one millisecond
C13_Witness ==
    \E g \in Gens :
        \E i, j \in Idx(g) :
            /\ i < j
            /\ owner[g][i] # owner[g][j]
            /\ Ids(g)[i].ts = Ids(g)[j].ts

\* C14: while a call waits for the next millisecond after the sequence
\* wrapped, no other caller gets an identifier from the instance: the
\* fields stay as the waiting call left them, and the next identifier
\* goes to the waiting caller, from a strictly later millisecond, with a
\* (timestamp, sequence) pair not issued before.
C14_WaitAtomic ==
    [][\A g \in Gens :
        pc[g] = "wait" =>
            /\ \A c \in Callers : ~CallNextId(c, g)
            /\ sequence'[g] = 0
            /\ pc'[g] = "wait" =>
                  /\ issued'[g] = issued[g]
                  /\ lastTimestamp'[g] = lastTimestamp[g]
                  /\ running'[g] = running[g]
            /\ pc'[g] # "wait" =>
                  /\ Len(issued'[g]) = Len(issued[g]) + 1
                  /\ owner'[g][Len(owner'[g])] = running[g]
                  /\ issued'[g][Len(issued'[g])].ts > lastTimestamp[g]
                  /\ issued'[g][Len(issued'[g])].seq = 0
                  /\ \A i \in Idx(g) :
                        Pair(g, i) # <<issued'[g][Len(issued'[g])].ts,
                                       issued'[g][Len(issued'[g])].seq>>]_vars

\* the call of one caller waited and returned, after the other caller
\* had taken the last identifier of the millisecond
C14_Witness ==
    \E g \in Gens :
        \E i \in Idx(g) :
            /\ i > 1
            /\ Ids(g)[i].inc /\ Ids(g)[i].seq = 0
            /\ Ids(g)[i - 1].seq = MAX_SEQUENCE
            /\ owner[g][i] # owner[g][i - 1]

\* ------------------------------------------------- strings, for claims --
\* the characters by class, each class in the order of its code units
DigitChars == <<
    "0", "1", "2", "3", "4", "5", "6", "7", "8", "9" >>
UpperChars == <<
    "A", "B", "C", "D", "E", "F", "G", "H", "I", "J", "K", "L", "M",
    "N", "O", "P", "Q", "R", "S", "T", "U", "V", "W", "X", "Y", "Z" >>
LowerChars == <<
    "a", "b", "c", "d", "e", "f", "g", "h", "i", "j", "k", "l", "m",
    "n", "o", "p", "q", "r", "s", "t", "u", "v", "w", "x", "y", "z" >>

Pos(chars, c) == CHOOSE i \in 1..Len(chars) : chars[i] = c
InChars(chars, c) == \E i \in 1..Len(chars) : chars[i] = c

\* the UTF-16 code unit of a character: 0-9 are 48-57, A-Z 65-90, a-z 97-122
CharCode(c) ==
    IF InChars(DigitChars, c) THEN 47 + Pos(DigitChars, c)
    ELSE IF InChars(UpperChars, c) THEN 64 + Pos(UpperChars, c)
    ELSE 96 + Pos(LowerChars, c)

IsAlnum(c) ==
    InChars(DigitChars, c) \/ InChars(UpperChars, c) \/ InChars(LowerChars, c)

\* s sorts before t in plain string comparison
StrLess(s, t) ==
    \E k \in 1..(Len(t)) :
        /\ k <= Len(s) + 1
        /\ \A i \in 1..(k - 1) : s[i] = t[i]
        /\ \/ k = Len(s) + 1
           \/ CharCode(s[k]) < CharCode(t[k])

\* the value of a base-62 digit, 0-9 then A-Z then a-z
DigitValue(c) ==
    IF InChars(DigitChars, c) THEN CharCode(c) - 48
    ELSE IF InChars(UpperChars, c) THEN CharCode(c) - 55
    ELSE CharCode(c) - 61

RECURSIVE DecodeFrom(_, _)
DecodeFrom(acc, s) ==
    IF s = <<>> THEN acc
    ELSE DecodeFrom(acc * 62 + DigitValue(Head(s)), Tail(s))

\* the reference decoder: most significant digit first
Decode(s) == DecodeFrom(0, s)

Both12 == encoded = {1, 2}

\* C15: toBase62 is injective on non-negative integers: two different
\* integers never get the same string, and one integer always gets the
\* same string.
C15_Injective ==
    Both12 => (num[1] = num[2] <=> str[1] = str[2])

\* two different integers whose strings differ in the last character only
C15_Witness ==
    /\ Both12
    /\ num[1] # num[2]
    /\ Len(str[1]) = 2 /\ Len(str[2]) = 2
    /\ str[1][1] = str[2][1]
    /\ str[1][2] = "O" /\ str[2][2] = "0"

\* C16: every identifier returned by nextId is recovered from its base-62
\* string by the reference decoder.
C16_RoundTrip ==
    \A g \in Gens :
        \A i \in Idx(g) : Decode(ToBase62(Ids(g)[i].id)) = Ids(g)[i].id

\* identifiers of the instance that lie in the range the layout provides
InRange(id) == id \in 0..(Pow2(IdBits) - 1)

\* C17 as stated, taken over the identifiers within the 0..2^IdBits-1
\* range only: of two identifiers a < b of one instance, the string of a
\* sorts before the string of b.
C17_Sortable ==
    \A g \in Gens :
        \A i, j \in Idx(g) :
            (InRange(Ids(g)[i].id) /\ InRange(Ids(g)[j].id)
                /\ Ids(g)[i].id < Ids(g)[j].id)
                => StrLess(ToBase62(Ids(g)[i].id), ToBase62(Ids(g)[j].id))

\* C18: of two non-negative integers a < b whose strings are equally
\* long, the string of a sorts before the string of b.
C18_OrderSameLength ==
    \A k, l \in {1, 2} :
        (Both12 /\ num[k] < num[l] /\ Len(str[k]) = Len(str[l]))
            => StrLess(str[k], str[l])

\* two-character strings whose first characters are Z and a
C18_Witness ==
    /\ Both12
    /\ num[1] < num[2]
    /\ Len(str[1]) = 2 /\ Len(str[2]) = 2
    /\ str[1][1] = "Z" /\ str[2][1] = "a"

\* C19: for every non-negative integer toBase62 returns a non-empty
\* string of the characters 0-9, A-Z, a-z whose first character is "0"
\* only when the integer is zero.
C19_WellFormed ==
    \A k \in encoded :
        /\ Len(str[k]) >= 1
        /\ \A i \in 1..Len(str[k]) : IsAlnum(str[k][i])
        /\ str[k][1] = "0" => num[k] = 0

\* a three-character string with zeros after its first character
C19_Witness ==
    \E k \in encoded :
        /\ Len(str[k]) = 3
        /\ str[k][2] = "0" /\ str[k][3] = "0"
        /\ num[k] > 0

\* C20: toBase62(0) is the one-character string "0".
C20_Zero ==
    \A k \in encoded : num[k] = 0 => str[k] = <<"0">>

\* zero has been encoded
C20_Witness ==
    \E k \in encoded : num[k] = 0 /\ Len(str[k]) = 1

\* C21: a call of toBase62 leaves lastTimestamp, sequence and machineId
\* as they were, and the identifiers returned by later calls of nextId are
\* the ones the untouched fields give: each continues the (timestamp,
\* sequence) of the identifier before it and is greater than it.
C21_EncodeFrame ==
    /\ [][\A g \in Gens :
            (\E k \in {1, 2} : \E i \in Idx(g) : EncodeIssued(g, i, k))
                => /\ lastTimestamp'[g] = lastTimestamp[g]
                   /\ sequence'[g] = sequence[g]
                   /\ machineId'[g] = machineId[g]
                   /\ issued'[g] = issued[g]
                   /\ result'[g] = result[g]]_vars
    /\ [](\A g \in Gens :
            /\ (pc[g] = "idle" /\ Len(Ids(g)) >= 1)
                  => Pair(g, Len(Ids(g))) = <<lastTimestamp[g], sequence[g]>>
            /\ \A i \in Idx(g) :
                  i > 1 =>
                    /\ Ids(g)[i].id > Ids(g)[i - 1].id
                    /\ \/ Ids(g)[i].ts > Ids(g)[i - 1].ts
                               /\ Ids(g)[i].seq = 0
                       \/ Ids(g)[i].ts = Ids(g)[i - 1].ts
                               /\ Ids(g)[i].seq = Ids(g)[i - 1].seq + 1)

\* an identifier was encoded in the middle of a millisecond and two more
\* identifiers were returned after it
C21_Witness ==
    \E g \in Gens :
        \E i \in Idx(g) :
            /\ 1 \in encoded
            /\ num[1] = Ids(g)[i].id
            /\ Ids(g)[i].seq = 1
            /\ Len(Ids(g)) >= i + 2
            /\ Ids(g)[i + 1].seq = 2

RECURSIVE DecimalDigits(_, _)
DecimalDigits(n, res) ==
    IF n > 0
    THEN DecimalDigits(n \div 10, <<DigitChars[(n % 10) + 1]>> \o res)
    ELSE res

\* the decimal rendering of an integer, a sign in front when negative
ToDecimal(n) ==
    IF n = 0 THEN <<"0">>
    ELSE IF n < 0 THEN <<"-">> \o DecimalDigits(0 - n, <<>>)
    ELSE DecimalDigits(n, <<>>)

C23_Branches ==
    [][\A g \in Gens :
        /\ ((NextId(g) \/ WaitNextMillis(g)) /\ now > lastTimestamp[g])
              => /\ pc'[g] = "idle"
                 /\ sequence'[g] = 0
                 /\ lastTimestamp'[g] = now
                 /\ result'[g].kind = "id"
                 /\ SeqField(result'[g].id) = 0
        /\ (NextId(g) /\ now = lastTimestamp[g]
                      /\ sequence[g] < MAX_SEQUENCE)
              => /\ pc'[g] = "idle"
                 /\ sequence'[g] = sequence[g] + 1
                 /\ lastTimestamp'[g] = lastTimestamp[g]
                 /\ result'[g].kind = "id"
                 /\ SeqField(result'[g].id) = sequence[g] + 1]_vars

\* the overflow wait has just handed back a later reading, after a
\* millisecond in which the counter went up step by step
C23_Witness ==
    \E g \in Gens :
        /\ pc[g] = "idle" /\ result[g].kind = "id"
        /\ sequence[g] = 0
        /\ Len(Ids(g)) >= 3
        /\ Ids(g)[Len(Ids(g))].inc
        /\ Ids(g)[Len(Ids(g))].ts = lastTimestamp[g]
        /\ Ids(g)[Len(Ids(g)) - 1].seq = Ids(g)[Len(Ids(g)) - 2].seq + 1

\* C24: a call that is in the overflow wait while the clock reads past
\* the timestamp it started with completes, unless the clock goes back
\* first; the wait is the only place a call does not complete at once,
\* and a call stays in it as long as the clock does not read past that
\* timestamp.
C24_Completes ==
    /\ \A g \in Gens :
          (pc[g] = "wait" /\ now > timestamp[g])
              ~> (pc[g] = "idle" \/ now <= timestamp[g])
    /\ [][\A g \in Gens :
            /\ NextId(g) =>
                  \/ result'[g].kind \in {"id", "ClockRegression"}
                        /\ pc'[g] = "idle"
                  \/ result'[g] = Pending /\ pc'[g] = "wait"
                        /\ timestamp'[g] = now
            /\ (pc[g] = "wait" /\ now <= timestamp[g])
                  => pc'[g] = "wait" /\ issued'[g] = issued[g]]_vars

\* a call went into the wait, read a clock that had not advanced, and
\* completed once the clock had
C24_Witness ==
    \E g \in Gens :
        /\ pc[g] = "idle" /\ result[g].kind = "id"
        /\ Len(Ids(g)) >= MAX_SEQUENCE + 2
        /\ Ids(g)[Len(Ids(g))].inc /\ Ids(g)[Len(Ids(g))].seq = 0
        /\ regressed[g]

\* C25: lastTimestamp never decreases, whether calls return or fail and
\* whatever the clock does, also while a call is in the overflow wait.
C25_LastTimestamp ==
    [][\A g \in Gens : lastTimestamp'[g] >= lastTimestamp[g]]_vars

\* a call in the overflow wait has read a clock that went back, after an
\* earlier call had failed on a clock behind lastTimestamp
C25_Witness ==
    \E g \in Gens :
        /\ pc[g] = "wait"
        /\ nextTimestamp[g] >= 0
        /\ nextTimestamp[g] < lastTimestamp[g]
        /\ prev[g] = "ClockRegression"

\* C26: whatever the clock does, every identifier one instance returns is
\* greater than the identifier it returned before, so no two are equal.
C26_StrictAnyClock ==
    \A g \in Gens :
        /\ \A i \in Idx(g) : i > 1 => Ids(g)[i].id > Ids(g)[i - 1].id
        /\ \A i, j \in Idx(g) : i # j => Ids(g)[i].id # Ids(g)[j].id

\* a run on a clock that went back, stalled through a full millisecond
\* and jumped ahead
C26_Witness ==
    \E g \in Gens :
        /\ regressed[g]
        /\ \E i, j \in Idx(g) :
              /\ i > 1 /\ Cardinality(SameMs(g, i - 1)) = MAX_SEQUENCE + 1
              /\ j > 1 /\ Ids(g)[j].ts > Ids(g)[j - 1].ts + 1

\* C27: when a call has returned an identifier, lastTimestamp - EPOCH is
\* the identifier's timestamp field, sequence is its sequence field, and
\* sequence is in 0..MAX_SEQUENCE.
C27_StateMatchesId ==
    \A g \in Gens :
        result[g].kind = "id" =>
            /\ lastTimestamp[g] - EPOCH = TsField(result[g].id)
            /\ sequence[g] = SeqField(result[g].id)
            /\ sequence[g] \in 0..MAX_SEQUENCE

\* the last identifier of a millisecond has just been returned
C27_Witness ==
    \E g \in Gens :
        /\ result[g].kind = "id"
        /\ sequence[g] = MAX_SEQUENCE
        /\ lastTimestamp[g] > EPOCH
        /\ machineId[g] = MAX_MACHINE_ID

\* a key whose blob and metadata are both stored
Retrievable(k) == k \in blobs /\ k \in meta

\* C28: whatever uploads ran and wherever they failed, every key with a
\* stored blob has stored metadata, and GET /:id has answered with a body
\* only for a key that has both.
C28_BlobHasMetadata ==
    /\ blobs \subseteq meta
    /\ (get.pc = "done" /\ get.status = 200) => Retrievable(get.id)
    /\ (get.pc = "done" /\ ~Retrievable(get.id)) => get.status = 404

\* an upload failed between its two writes, and GET served another key
C28_Witness ==
    /\ \E k \in meta : k \notin blobs
    /\ \E r \in Uploads : up[r].pc = "done" /\ up[r].status = 400
    /\ get.pc = "done" /\ get.status = 200

\* C29: an upload with no file or with a file that is neither image/ nor
\* video/ is answered 400, writes to neither store and takes no identifier
\* from the generator; an upload whose call of nextId throws is answered
\* 400 and writes to neither store.
C29_Rejected ==
    [][\A r \in Uploads, f \in Files :
        /\ (Upload(r, f) /\ f \notin {"image/", "video/"})
              => /\ up'[r].pc = "done" /\ up'[r].status = 400
                 /\ meta' = meta /\ blobs' = blobs
                 /\ issued' = issued
                 /\ sequence' = sequence
                 /\ lastTimestamp' = lastTimestamp
        /\ (Upload(r, f) /\ f \in {"image/", "video/"}
                         /\ now < lastTimestamp[1])
              => /\ result'[1] = ClockRegression
                 /\ up'[r].pc = "done" /\ up'[r].status = 400
                 /\ meta' = meta /\ blobs' = blobs]_vars

\* an upload was turned down by a clock behind an identifier that an
\* earlier upload had stored
C29_Witness ==
    /\ result[1] = ClockRegression
    /\ \E r \in Uploads : up[r].pc = "done" /\ up[r].status = 400
    /\ now < lastTimestamp[1]
    /\ blobs # {}

====
